---- MODULE Spec2Model ----
(***************************************************************************)
(* Model of the configuration store (src/lib/config.ts), the credential    *)
(* resolution of the action wrapper `act` and the commands of cli.ts that   *)
(* use them.  The config file is modelled as YAML text (plain and quoted    *)
(* scalars), the in-memory document as JavaScript values; parse, stringify  *)
(* and the zod schema convert between the two.                              *)
(***************************************************************************)
EXTENDS Naturals, Sequences, FiniteSets, TLC

\* ------------------------------------------------------ JavaScript values
JSUndef == [t |-> "undef", v |-> ""]
JSNull == [t |-> "nil", v |-> ""]
JSStr(s) == [t |-> "str", v |-> s]
JSInt(s) == [t |-> "int", v |-> s]

\* the object parse() hands to the schema; obj = FALSE: not a mapping
JSObject(ver, team, extra) ==
  [obj |-> TRUE, version |-> ver, team |-> team, extra |-> extra]
JSNotObject == [obj |-> FALSE, version |-> JSUndef, team |-> JSUndef, extra |-> JSUndef]

\* ------------------------------------------------------- YAML file text
\* a scalar of the file: p = present, q = quoted, s = its characters
Missing == [p |-> FALSE, q |-> FALSE, s |-> ""]
Plain(s) == [p |-> TRUE, q |-> FALSE, s |-> s]
Quoted(s) == [p |-> TRUE, q |-> TRUE, s |-> s]

\* a file text: its kind, the scalars of a mapping, and in tail the bytes that
\* follow the mapping ("" unless a shorter text was written over a longer one)
Absent ==
  [k |-> "absent", version |-> Missing, team |-> Missing, extra |-> Missing, tail |-> ""]
Garbage ==
  [k |-> "garbage", version |-> Missing, team |-> Missing, extra |-> Missing, tail |-> ""]
ScalarDoc ==
  [k |-> "scalar", version |-> Missing, team |-> Missing, extra |-> Missing, tail |-> ""]
\* the file exists and holds no byte
Empty ==
  [k |-> "empty", version |-> Missing, team |-> Missing, extra |-> Missing, tail |-> ""]
MapDoc(ver, team, extra) ==
  [k |-> "map", version |-> ver, team |-> team, extra |-> extra, tail |-> ""]

\* ------------------------------------------------- teams and API keys
NumTeams == 2

TeamNames == <<"alpha", "null", "beta">>

\* team identifiers; "null" is a team whose name collides with a YAML keyword
Teams == {TeamNames[i] : i \in 1..NumTeams}
\* API keys: values of --api-key, of PAPERSPACE_API_KEY and of stored secrets
ApiKeys == {"K1", "K2"}

\* ------------------------------------------------- parse and stringify
NullLexemes == {"null", "~", ""}
IntLexemes == {"1", "2", "7"}

\* YAML core schema: what a plain scalar resolves to
ResolvePlain(s) ==
  IF s \in NullLexemes THEN JSNull
  ELSE IF s \in IntLexemes THEN JSInt(s)
  ELSE JSStr(s)

ResolveScalar(lex) ==
  IF ~lex.p THEN JSUndef
  ELSE IF lex.q THEN JSStr(lex.s)
  ELSE ResolvePlain(lex.s)

\* bytes after the mapping that are line ends only leave the document as it is
BlankTail(tail) == \A i \in 1..Len(tail) : SubSeq(tail, i, i) = "\n"

\* parse(text): the YAML document as a JavaScript value, or a thrown error;
\* an empty text is the value null
parse(text) ==
  CASE text.k = "garbage" -> [threw |-> TRUE, value |-> JSNotObject]
    [] text.k \in {"scalar", "empty"} -> [threw |-> FALSE, value |-> JSNotObject]
    [] ~BlankTail(text.tail) -> [threw |-> TRUE, value |-> JSNotObject]
    [] OTHER -> [threw |-> FALSE,
                 value |-> JSObject(ResolveScalar(text.version),
                                    ResolveScalar(text.team),
                                    ResolveScalar(text.extra))]

\* mutant of StringifyScalar: strings are never quoted
StringifyUnquoted(val) ==
  CASE val.t = "undef" -> Missing
    [] val.t = "nil" -> Plain("null")
    [] OTHER -> Plain(val.v)

\* a string is written plain unless a plain scalar would resolve to another type
StringifyScalar(val) ==
  CASE val.t = "undef" -> Missing
    [] val.t = "nil" -> Plain("null")
    [] val.t = "int" -> Plain(val.v)
    [] OTHER -> IF ResolvePlain(val.v) = JSStr(val.v) THEN Plain(val.v)
                ELSE Quoted(val.v)

\* stringify(config): the YAML text of a document
stringify(config) ==
  MapDoc(StringifyScalar(config.version), StringifyScalar(config.team), Missing)

\* ------------------------------------------------- CredentialStore
\* the store is a function from the teams that have an entry to their secret

\* credentials.get(team): the secret, or "" (nothing, falsy) without an entry
credentialsGet(creds, team) ==
  IF team \in DOMAIN creds THEN creds[team] ELSE ""

\* ------------------------------------------------------------- schema
\* the transform of schema.team: the value when the team has a credential,
\* a thrown ConfigError otherwise
teamTransform(creds, value) ==
  IF credentialsGet(creds, value) # "" THEN "none" ELSE "ConfigError"

\* schema.parseAsync(input): err = "none" and the validated document, or the
\* error it rejects with.  An error thrown by the transform rejects the parse
\* whatever the other fields hold; unknown keys are stripped.
schema(input, creds) ==
  LET verOk == input.version = JSUndef \/ input.version = JSInt("1")
      teamOk == input.team.t \in {"undef", "nil", "str"}
      looked == IF input.obj /\ input.team.t = "str"
                THEN <<"credentials.get">> ELSE <<>>
      fail(e) == [err |-> e, version |-> JSUndef, team |-> JSUndef,
                  log |-> IF e = "ConfigError"
                          THEN looked \o <<"credentials.list">> ELSE looked]
  IN IF ~input.obj THEN fail("ZodError")
     ELSE IF input.team.t = "str" /\ teamTransform(creds, input.team.v) # "none"
       THEN fail(teamTransform(creds, input.team.v))
     ELSE IF ~verOk \/ ~teamOk THEN fail("ZodError")
     ELSE [err |-> "none",
           version |-> JSInt("1"),
           team |-> IF input.team = JSUndef THEN JSNull ELSE input.team,
           log |-> looked]

\* the document of a successful parse (z.infer<typeof schema>)
Config(parsed) == [version |-> parsed.version, team |-> parsed.team]

\* a document as the plain object handed to schema.parseAsync
AsObject(config) == JSObject(config.version, config.team, JSUndef)

\* schema.parseAsync({ team: null })
DefaultsObject == JSObject(JSUndef, JSNull, JSUndef)

\* the one element of a singleton: The({e(x) : x \in {v}}) is e(v) with v
\* evaluated once
The(S) == CHOOSE x \in S : TRUE

\* ------------------------------------------------- ConfigStore: write
\* mutant of write: the document is written as handed in, not revalidated
writeRaw(file, dir, creds, config) ==
  [file |-> stringify(config), dir |-> TRUE, threw |-> "none",
   wrote |-> <<stringify(config)>>,
   log |-> (IF dir THEN <<"stat">> ELSE <<"stat", "mkdir">>) \o <<"writeFile">>]

\* mutant of write: validates, then stringifies the document handed in instead
\* of the validated one
writeInput(file, dir, creds, config) ==
  LET made == IF dir THEN <<"stat">> ELSE <<"stat", "mkdir">>
  IN The({IF parsed.err # "none"
          THEN [file |-> file, dir |-> TRUE, threw |-> parsed.err,
                wrote |-> <<>>, log |-> made \o parsed.log]
          ELSE [file |-> stringify(config), dir |-> TRUE, threw |-> "none",
                wrote |-> <<stringify(config)>>,
                log |-> made \o parsed.log \o <<"writeFile">>]
          : parsed \in {schema(config, creds)}})

\* write(config): creates the directory, revalidates, then writes the file
write(file, dir, creds, config) ==
  LET made == IF dir THEN <<"stat">> ELSE <<"stat", "mkdir">>
  IN The({IF parsed.err # "none"
          THEN [file |-> file, dir |-> TRUE, threw |-> parsed.err,
                wrote |-> <<>>, log |-> made \o parsed.log]
          ELSE [file |-> stringify(Config(parsed)), dir |-> TRUE, threw |-> "none",
                wrote |-> <<stringify(Config(parsed))>>,
                log |-> made \o parsed.log \o <<"writeFile">>]
          : parsed \in {schema(config, creds)}})

\* -------------------------------------------------- ConfigStore: read
\* the catch block of read(): defaults, written back
readRecover(file, dir, creds, tried) ==
  The({[file |-> w.file, dir |-> w.dir, threw |-> w.threw,
        config |-> Config(schema(DefaultsObject, creds)),
        wrote |-> w.wrote, log |-> tried \o w.log]
       : w \in {write(file, dir, creds,
                      AsObject(Config(schema(DefaultsObject, creds))))}})

\* mutant of read: the catch block returns the defaults without writing them
readForgets(file, dir, creds) ==
  IF file.k = "absent"
     \/ (~parse(file).threw /\ schema(parse(file).value, creds).err = "none")
  THEN [file |-> file, dir |-> dir, threw |-> "none",
        config |-> IF file.k = "absent"
                   THEN Config(schema(DefaultsObject, creds))
                   ELSE Config(schema(parse(file).value, creds)),
        wrote |-> <<>>, log |-> <<"stat">>]
  ELSE [file |-> file, dir |-> dir, threw |-> "none",
        config |-> Config(schema(DefaultsObject, creds)),
        wrote |-> <<>>, log |-> <<"stat", "readFile">>]

\* mutant of read: a missing file is treated like an invalid one and seeded
readSeeds(file, dir, creds) ==
  IF file.k = "absent" \/ parse(file).threw
     \/ schema(parse(file).value, creds).err # "none"
  THEN readRecover(file, dir, creds, <<"stat">>)
  ELSE [file |-> file, dir |-> dir, threw |-> "none",
        config |-> Config(schema(parse(file).value, creds)),
        wrote |-> <<>>, log |-> <<"stat", "readFile">>]

\* read(): defaults without a file; the validated document of a file that
\* loads; for any error raised while loading, the catch block
read(file, dir, creds) ==
  IF file.k = "absent"
  THEN [file |-> file, dir |-> dir, threw |-> "none",
        config |-> Config(schema(DefaultsObject, creds)),
        wrote |-> <<>>, log |-> <<"stat">>]
  ELSE The({IF p.threw
            THEN readRecover(file, dir, creds, <<"stat", "readFile">>)
            ELSE The({IF v.err = "none"
                      THEN [file |-> file, dir |-> dir, threw |-> "none",
                            config |-> Config(v), wrote |-> <<>>,
                            log |-> <<"stat", "readFile">> \o v.log]
                      ELSE readRecover(file, dir, creds,
                                       <<"stat", "readFile">> \o v.log)
                      : v \in {schema(p.value, creds)}})
            : p \in {parse(file)}})

\* ------------------------------------ ConfigStore: get, set, remove, clear
Paths == {"team"}

\* obj.get(config, path)
objGet(config, path) == IF path = "team" THEN config.team ELSE JSUndef

\* obj.set(config, path, value): a copy with the value at the path
objSet(config, path, value) ==
  IF path = "team" THEN JSObject(config.version, value, JSUndef)
  ELSE AsObject(config)

\* mutant of objDel: the key is left in place
objDelKeeps(config, path) == AsObject(config)

\* obj.del(config, path): a copy without the key
objDel(config, path) ==
  IF path = "team" THEN JSObject(config.version, JSUndef, JSUndef)
  ELSE AsObject(config)

\* get(path): read(), then the value at the path
get(file, dir, creds, path) ==
  The({[file |-> r.file, dir |-> r.dir, threw |-> r.threw,
        value |-> IF r.threw = "none" THEN objGet(r.config, path) ELSE JSUndef,
        wrote |-> r.wrote, log |-> r.log]
       : r \in {read(file, dir, creds)}})

\* what follows the read() of set and remove: write(next) unless read() threw
ThenWrite(r, creds, next) ==
  IF r.threw # "none"
  THEN [file |-> r.file, dir |-> r.dir, threw |-> r.threw, value |-> JSUndef,
        wrote |-> r.wrote, log |-> r.log]
  ELSE The({[file |-> w.file, dir |-> w.dir, threw |-> w.threw, value |-> JSUndef,
             wrote |-> r.wrote \o w.wrote, log |-> r.log \o w.log]
            : w \in {write(r.file, r.dir, creds, next)}})

\* set(path, value): read(), then write(obj.set(config, path, value))
set(file, dir, creds, path, value) ==
  The({ThenWrite(r, creds, objSet(r.config, path, value))
       : r \in {read(file, dir, creds)}})

\* remove(path): read(), then write(obj.del(config, path))
remove(file, dir, creds, path) ==
  The({ThenWrite(r, creds, objDel(r.config, path))
       : r \in {read(file, dir, creds)}})

\* mutant of clear: the file is loaded first, as remove does
clearReads(file, dir, creds) == remove(file, dir, creds, "team")

\* clear(): write(await schema.parseAsync({ team: null }))
clear(file, dir, creds) ==
  The({[file |-> w.file, dir |-> w.dir, threw |-> w.threw, value |-> JSUndef,
        wrote |-> w.wrote, log |-> w.log]
       : w \in {write(file, dir, creds,
                      AsObject(Config(schema(DefaultsObject, creds))))}})

\* ------------------------------------------------ credential resolution
\* whether a value is truthy as a team (a non-empty string)
Truthy(value) == value.t = "str" /\ value.v # ""

\* the third source of the resolution: the credential of the configured team
FromTeam(file, dir, creds, env1) ==
  The({[file |-> g.file, dir |-> g.dir,
        env |-> IF g.threw = "none" /\ Truthy(g.value)
                THEN credentialsGet(creds, g.value.v) ELSE env1,
        threw |-> g.threw, wrote |-> g.wrote,
        log |-> <<"config.get">> \o g.log
                \o (IF g.threw = "none" /\ Truthy(g.value)
                    THEN <<"credentials.get">> ELSE <<>>)]
       : g \in {get(file, dir, creds, "team")}})

\* mutant of resolve: the environment is preferred to --api-key
resolveEnvFirst(file, dir, creds, envKey, apiKey) ==
  IF envKey # "" \/ apiKey # ""
  THEN [file |-> file, dir |-> dir, env |-> IF envKey # "" THEN envKey ELSE apiKey,
        threw |-> "none", wrote |-> <<>>, log |-> <<>>]
  ELSE FromTeam(file, dir, creds, "")

\* mutant of resolve: the team's credential is looked up whatever was supplied
\* and replaces it
resolveTeamOverwrites(file, dir, creds, envKey, apiKey) ==
  FromTeam(file, dir, creds, IF apiKey # "" THEN apiKey ELSE envKey)

\* mutant of resolve: the configured team is read before the sources are
\* compared, and used only when neither supplies a key
resolveReadsFirst(file, dir, creds, envKey, apiKey) ==
  The({IF apiKey # "" \/ envKey # ""
       THEN [file |-> t.file, dir |-> t.dir,
             env |-> IF apiKey # "" THEN apiKey ELSE envKey,
             threw |-> t.threw, wrote |-> t.wrote, log |-> t.log]
       ELSE t
       : t \in {FromTeam(file, dir, creds, "")}})

\* mutant of resolve: the team that was read is stored back into the config
resolveFeedsBack(file, dir, creds, envKey, apiKey) ==
  IF apiKey # "" \/ envKey # ""
  THEN [file |-> file, dir |-> dir, env |-> IF apiKey # "" THEN apiKey ELSE envKey,
        threw |-> "none", wrote |-> <<>>, log |-> <<>>]
  ELSE The({The({[file |-> w.file, dir |-> w.dir, env |-> t.env, threw |-> w.threw,
                  wrote |-> t.wrote \o w.wrote, log |-> t.log \o w.log]
                 : w \in {set(t.file, t.dir, creds, "team",
                              ResolveScalar(t.file.team))}})
            : t \in {FromTeam(file, dir, creds, "")}})

\* the resolution of act: --api-key, then PAPERSPACE_API_KEY, then the
\* credential of the configured team; env is PAPERSPACE_API_KEY afterwards
\* ("" = unset)
resolve(file, dir, creds, envKey, apiKey) ==
  LET env1 == IF apiKey # "" THEN apiKey ELSE envKey
  IN IF env1 # ""
     THEN [file |-> file, dir |-> dir, env |-> env1, threw |-> "none",
           wrote |-> <<>>, log |-> <<>>]
     ELSE FromTeam(file, dir, creds, env1)

\* --------------------------------------------------------------- state
VARIABLES
  file,    \* the text of CONFIG_PATH, or Absent
  dir,     \* whether CONFIG_DIR exists
  creds,   \* the CredentialStore: team -> secret
  envKey,  \* the environment variable PAPERSPACE_API_KEY ("" = unset)
  pc,      \* position of the invocation: "idle", or "resolved" inside act
  last,    \* the operation just completed and what it observed and did
  prev,    \* the operation before it
  shape,   \* the schema handed to the path enumerator
  keys,    \* the paths the enumerator returned
  inv,     \* two concurrent invocations of set: their position and locals
  steps    \* the writeTextFile calls of the concurrent invocations, in order

vars == <<file, dir, creds, envKey, pc, last, prev, shape, keys, inv, steps>>

\* the variables the operations of one process leave alone
aside == <<shape, keys, inv, steps>>

\* no schema under enumeration, no concurrent invocation
NoAside == shape = <<>> /\ keys = <<>> /\ inv = <<>> /\ steps = <<>>

\* file texts an installation can hold before the first operation
VersionLexemes == {Missing, Plain("1"), Plain("2")}
TeamLexemes ==
  {Missing, Plain("null"), Plain("7")} \cup {StringifyScalar(JSStr(t)) : t \in Teams}
\* a key the schema does not know, as an edit by hand leaves it
ExtraLexeme == Plain("nano")
Files ==
  {Absent, Garbage, ScalarDoc}
  \cup {MapDoc(v, t, Missing) : v \in VersionLexemes, t \in TeamLexemes}
  \cup {MapDoc(Plain("1"), t, ExtraLexeme) : t \in TeamLexemes}

CredentialStores == UNION {[S -> ApiKeys] : S \in SUBSET Teams}

\* values a caller passes to set("team", value)
TeamValues == {JSNull} \cup {JSStr(t) : t \in Teams}

\* documents a caller passes to write(config)
Documents == {[version |-> JSInt("1"), team |-> t] : t \in TeamValues}

NoOp == [op |-> "init", arg |-> JSUndef, threw |-> "none", beforeK |-> "absent"]

\* the document an operation returned, for those that return none
NoDoc == [version |-> JSUndef, team |-> JSUndef]

Done(op, arg, res, doc, value) ==
  [op |-> op, arg |-> arg, before |-> file, envBefore |-> envKey,
   threw |-> res.threw, doc |-> doc, value |-> value,
   wrote |-> res.wrote, log |-> res.log]

\* what the next operation remembers of this one
Earlier == [op |-> last.op, arg |-> last.arg, threw |-> last.threw,
            beforeK |-> last.before.k]

Init ==
  /\ file \in Files
  /\ dir \in BOOLEAN
  /\ file # Absent => dir
  /\ creds \in CredentialStores
  /\ envKey \in {""} \cup ApiKeys
  /\ pc = "idle"
  /\ last = [op |-> "init", arg |-> JSUndef, before |-> file, envBefore |-> envKey,
             threw |-> "none", doc |-> NoDoc, value |-> JSUndef,
             wrote |-> <<>>, log |-> <<>>]
  /\ prev = NoOp
  /\ NoAside

\* what every operation records and moves on disk
Finish(op, arg, res, doc, value) ==
  /\ UNCHANGED aside
  /\ file' = res.file
  /\ dir' = res.dir
  /\ last' = Done(op, arg, res, doc, value)
  /\ prev' = Earlier

\* ------------------------------------------------ ConfigStore operations
Read ==
  /\ pc = "idle"
  /\ \E r \in {read(file, dir, creds)} :
       Finish("read", JSUndef, r, IF r.threw = "none" THEN r.config ELSE NoDoc, JSUndef)
  /\ UNCHANGED <<creds, envKey, pc>>

Get(path) ==
  /\ pc = "idle"
  /\ \E r \in {get(file, dir, creds, path)} : Finish("get", JSStr(path), r, NoDoc, r.value)
  /\ UNCHANGED <<creds, envKey, pc>>

Set(path, value) ==
  /\ pc = "idle"
  /\ \E r \in {set(file, dir, creds, path, value)} : Finish("set", value, r, NoDoc, r.value)
  /\ UNCHANGED <<creds, envKey, pc>>

Remove(path) ==
  /\ pc = "idle"
  /\ \E r \in {remove(file, dir, creds, path)} : Finish("remove", JSStr(path), r, NoDoc, r.value)
  /\ UNCHANGED <<creds, envKey, pc>>

Clear ==
  /\ pc = "idle"
  /\ \E r \in {clear(file, dir, creds)} : Finish("clear", JSUndef, r, NoDoc, r.value)
  /\ UNCHANGED <<creds, envKey, pc>>

Write(config) ==
  /\ pc = "idle"
  /\ \E w \in {write(file, dir, creds, AsObject(config))} :
       Finish("write", config.team, w, NoDoc, JSUndef)
  /\ UNCHANGED <<creds, envKey, pc>>

\* ---------------------------------------------------------- act wrapper
\* the resolution step of act, with --api-key apiKey ("" = not given); the
\* DEBUG and PAPERSPACE_API_URL variables it also sets are read by no
\* operation of the model and are left out of the state
ActResolve(apiKey) ==
  /\ pc = "idle"
  /\ \E r \in {resolve(file, dir, creds, envKey, apiKey)} :
        /\ file' = r.file
        /\ dir' = r.dir
        /\ envKey' = r.env
        /\ pc' = IF r.threw = "none" THEN "resolved" ELSE "idle"
        /\ last' = Done("resolve", JSStr(apiKey), r, NoDoc, JSUndef)
        /\ prev' = Earlier
  /\ UNCHANGED <<creds, aside>>

\* the wrapped function of `config get <key>`, run by act after the resolution
ConfigGetCommand(key) ==
  /\ pc = "resolved"
  /\ \E r \in {get(file, dir, creds, key)} : Finish("config get", JSStr(key), r, NoDoc, r.value)
  /\ pc' = "idle"
  /\ UNCHANGED <<creds, envKey>>

Next ==
  \/ Read
  \/ \E path \in Paths : Get(path)
  \/ \E path \in Paths, value \in TeamValues : Set(path, value)
  \/ \E path \in Paths : Remove(path)
  \/ Clear
  \/ \E config \in Documents : Write(config)
  \/ \E apiKey \in {""} \cup ApiKeys : ActResolve(apiKey)
  \/ \E key \in Paths : ConfigGetCommand(key)

Spec == Init /\ [][Next]_vars

\* ------------------------------------------------------------- claims
\* the default document and its text on disk
DefaultDoc == [version |-> JSInt("1"), team |-> JSNull]
DefaultFile == MapDoc(Plain("1"), Plain("null"), Missing)

\* the team a file text names, when it names one
NamedTeam(f) == ResolveScalar(f.team)

\* the file exists, parses, and all that is wrong with it is that its team
\* has no entry in the CredentialStore
NamesUnknownTeam(f, c) ==
  /\ f.k = "map"
  /\ f.version \in {Missing, Plain("1")}
  /\ NamedTeam(f).t = "str"
  /\ NamedTeam(f).v \notin DOMAIN c

\* the file holds a valid document: version 1 (or none), team null (or none)
\* or a team with a credential
ValidFile(f, c) ==
  /\ f.k = "map"
  /\ f.version \in {Missing, Plain("1")}
  /\ \/ NamedTeam(f).t \in {"undef", "nil"}
     \/ NamedTeam(f).t = "str" /\ NamedTeam(f).v \in DOMAIN c

ReadFamily == {"read", "get", "set", "remove"}

\* C1: when the file parses and names a team without a credential, read, get,
\* set and remove fail with a ConfigError and the file keeps its content
C1_UnknownTeamPropagates ==
  (last.op \in ReadFamily /\ NamesUnknownTeam(last.before, creds))
    => (last.threw = "ConfigError" /\ file = last.before)

\* C2: without a config file, read and get return the defaults and create
\* neither the file nor anything else on disk
C2_AbsentFileNotCreated ==
  (last.op \in {"read", "get"} /\ last.before = Absent)
    => /\ file = Absent
       /\ last.threw = "none"
       /\ last.wrote = <<>>
       /\ last.op = "read" => last.doc = DefaultDoc
       /\ last.op = "get" => last.value = JSNull

C2_Witness ==
  /\ last.op \in {"read", "get"}
  /\ prev.op \in {"read", "get"}
  /\ prev.beforeK = "absent"
  /\ last.before = Absent
  /\ file = Absent

\* C3: read of a file that does not parse returns the defaults without
\* raising and leaves the default document on disk; the read that follows
\* returns the defaults and writes nothing
C3_CorruptFileRecovered ==
  /\ (last.op = "read" /\ last.before = Garbage)
       => /\ last.threw = "none"
          /\ last.doc = DefaultDoc
          /\ last.wrote = <<DefaultFile>>
          /\ file = DefaultFile
  /\ (last.op = "read" /\ prev.op = "read" /\ prev.beforeK = "garbage")
       => /\ last.before = DefaultFile
          /\ last.threw = "none"
          /\ last.doc = DefaultDoc
          /\ last.wrote = <<>>
          /\ file = DefaultFile

C3_Witness ==
  /\ last.op = "read"
  /\ prev.op = "read"
  /\ prev.beforeK = "garbage"
  /\ last.wrote = <<>>
  /\ file = DefaultFile

\* C4: set("team", v) with v a team without a credential raises a ConfigError
\* and no write of the call puts v in the file
C4_SetUnknownTeamFails ==
  (last.op = "set" /\ last.arg.t = "str" /\ last.arg.v \notin DOMAIN creds)
    => /\ last.threw = "ConfigError"
       /\ \A i \in 1..Len(last.wrote) : NamedTeam(last.wrote[i]) # last.arg
       /\ file # last.before => NamedTeam(file) # last.arg

C4_Witness ==
  /\ last.op = "set"
  /\ last.arg = JSStr("alpha")
  /\ "alpha" \notin DOMAIN creds
  /\ last.threw = "ConfigError"
  /\ ValidFile(last.before, creds)
  /\ file = last.before

\* C5: set(path, v) with a valid v succeeds from any file state, and the get
\* that follows it returns v
C5_SetGetRoundTrip ==
  /\ (last.op = "set" /\ (last.arg = JSNull \/ last.arg.v \in DOMAIN creds))
       => last.threw = "none"
  /\ (last.op = "get" /\ prev.op = "set" /\ prev.threw = "none")
       => (last.threw = "none" /\ last.value = prev.arg)

C5_Witness ==
  /\ last.op = "get"
  /\ prev.op = "set"
  /\ prev.beforeK = "garbage"
  /\ prev.arg = JSStr("null")
  /\ last.value = JSStr("null")

\* the credential of the team get("team") returns for a file, "" without one
TeamCredential(f, c) ==
  The({IF g.threw = "none" /\ g.value.t = "str"
       THEN credentialsGet(c, g.value.v) ELSE ""
       : g \in {get(f, TRUE, c, "team")}})

\* C6: after the resolution PAPERSPACE_API_KEY holds the first non-empty of
\* --api-key, its own earlier value and the credential of the configured
\* team, and stays unset when there is none
C6_ResolutionPrecedence ==
  last.op = "resolve"
    => envKey = IF last.arg.v # "" THEN last.arg.v
                ELSE IF last.envBefore # "" THEN last.envBefore
                ELSE TeamCredential(last.before, creds)

C6_Witness ==
  /\ last.op = "resolve"
  /\ last.arg.v = ""
  /\ last.envBefore = ""
  /\ NamedTeam(last.before) = JSStr("alpha")
  /\ envKey = "K2"
  /\ "null" \in DOMAIN creds /\ creds["null"] = "K1"

\* C7 as stated: the resolution leaves the config file as it was, whether
\* the file was absent, corrupt, valid or naming an unknown team
C7_ResolutionNeverWrites ==
  (/\ last.op = "resolve"
   /\ \/ last.before \in {Absent, Garbage}
      \/ ValidFile(last.before, creds)
      \/ NamesUnknownTeam(last.before, creds))
    => file = last.before

\* C7 amended: the resolution leaves the config file as it was when a key is
\* supplied and when the file is absent or valid; otherwise the file is one
\* that exists and does not load, and it now holds the default document
C7_ResolutionWritesOnlyDefaults ==
  last.op = "resolve"
    => /\ (last.arg.v # "" \/ last.envBefore # "" \/ last.before = Absent
           \/ ValidFile(last.before, creds))
         => file = last.before
       /\ file # last.before => file = DefaultFile
       /\ (/\ last.arg.v = "" /\ last.envBefore = ""
           /\ last.before # Absent /\ ~ValidFile(last.before, creds))
            => file = DefaultFile

C7_Witness ==
  /\ last.op = "resolve"
  /\ last.arg.v = ""
  /\ last.envBefore = ""
  /\ last.before = Garbage
  /\ file = DefaultFile

\* C8: when --api-key or the environment supplies a key, the resolution reads
\* neither the config nor the credentials
C8_NoLookupOnceSupplied ==
  (last.op = "resolve" /\ (last.arg.v # "" \/ last.envBefore # ""))
    => last.log = <<>>

C8_Witness ==
  /\ last.op = "resolve"
  /\ last.arg.v = ""
  /\ last.envBefore = "K1"
  /\ NamesUnknownTeam(last.before, creds)
  /\ last.log = <<>>

\* C9: with --api-key given, PAPERSPACE_API_KEY holds it once the resolution
\* is done, whatever it held before, and still holds it when the wrapped
\* function has run
C9_OverrideHeldInEnvironment ==
  /\ (last.op = "resolve" /\ last.arg.v # "")
       => (pc = "resolved" /\ envKey = last.arg.v)
  /\ (last.op = "config get" /\ prev.op = "resolve" /\ prev.arg.v # "")
       => envKey = prev.arg.v

C9_Witness ==
  /\ pc = "resolved"
  /\ last.op = "resolve"
  /\ last.arg.v = "K1"
  /\ last.envBefore = "K2"
  /\ envKey = "K1"
  /\ ValidFile(last.before, creds) /\ NamedTeam(last.before).t = "str"

\* C10: remove of a valid document leaves the default document, and a second
\* remove succeeds and leaves the same document
C10_RemoveIdempotent ==
  /\ (last.op = "remove" /\ ValidFile(last.before, creds))
       => (last.threw = "none" /\ file = DefaultFile)
  /\ (last.op = "remove" /\ prev.op = "remove" /\ prev.threw = "none")
       => (last.threw = "none" /\ file = last.before /\ file = DefaultFile)

C10_Witness ==
  /\ last.op = "remove"
  /\ prev.op = "remove"
  /\ prev.beforeK = "map"
  /\ last.threw = "none"
  /\ file = DefaultFile

\* whether the operation just completed made the call named x
InLog(x) == \E i \in 1..Len(last.log) : last.log[i] = x

\* C11: clear succeeds from any file state, leaves exactly the default
\* document on disk with a single write, and neither reads the file nor
\* looks at the CredentialStore
C11_ClearWritesDefaults ==
  last.op = "clear"
    => /\ last.threw = "none"
       /\ file = DefaultFile
       /\ last.wrote = <<DefaultFile>>
       /\ ~InLog("readFile")
       /\ ~InLog("credentials.get")

C11_Witness ==
  /\ last.op = "clear"
  /\ NamesUnknownTeam(last.before, creds)
  /\ last.wrote = <<DefaultFile>>
  /\ file = DefaultFile

\* a text write() may persist: version 1 and a team that is null or has a
\* credential, both keys present, nothing else
Canonical(f, c) ==
  /\ f.k = "map"
  /\ f.version = Plain("1")
  /\ f.extra = Missing
  /\ f.team.p
  /\ \/ NamedTeam(f) = JSNull
     \/ NamedTeam(f).t = "str" /\ NamedTeam(f).v \in DOMAIN c

\* C12: the document read returns, and every text any operation persists
\* through write, has version 1 and a team that is null or has a credential;
\* the text persisted is the validated document's, whatever was handed in
C12_TeamInvariant ==
  /\ (last.op = "read" /\ last.threw = "none")
       => /\ last.doc.version = JSInt("1")
          /\ \/ last.doc.team = JSNull
             \/ last.doc.team.t = "str" /\ last.doc.team.v \in DOMAIN creds
  /\ \A i \in 1..Len(last.wrote) : Canonical(last.wrote[i], creds)
  /\ (last.op = "write" /\ last.threw = "none")
       => last.wrote = <<stringify([version |-> JSInt("1"), team |-> last.arg])>>

\* remove hands write a document without a team key; the text persisted has one
C12_Witness ==
  /\ last.op = "remove"
  /\ NamedTeam(last.before) = JSStr("null")
  /\ last.wrote = <<DefaultFile>>
  /\ prev.op = "write"
  /\ prev.arg = JSStr("null")
  /\ prev.threw = "none"

\* C18: a set or write that fails validation leaves the file as it
\* was and creates no config directory, whether the file was absent, corrupt
\* or valid and whether or not the directory existed
C18_FailedCallLeavesDisk ==
  (/\ last.op \in {"set", "write"}
   /\ last.threw # "none"
   /\ (last.before \in {Absent, Garbage} \/ ValidFile(last.before, creds)))
    => (file = last.before /\ ~InLog("mkdir"))

\* ------------------------------------------ CredentialStore: mutations
\* credentials.set(team, key): inserts the entry or replaces its secret
credentialsSet(c, team, key) ==
  [t \in DOMAIN c \cup {team} |-> IF t = team THEN key ELSE c[t]]

\* credentials.remove(team): drops the entry, a no-op without one
credentialsRemove(c, team) == [t \in DOMAIN c \ {team} |-> c[t]]

\* credentials.clear(): drops every entry
credentialsClear(c) == [t \in {} |-> ""]

\* ------------------------------------------------- cli.ts: the commands
\* the calls of the login action after the viewer lookup, in source order
LoginSteps == <<"credentials.set", "config.set(team)">>

\* mutant of LogoutSteps: the credential is removed before the team is cleared
LogoutStepsSwapped == <<"credentials.remove", "config.set(null)">>

\* the calls of logout [team] after config.get("team"), in source order
LogoutSteps == <<"config.set(null)", "credentials.remove">>

\* the calls of logout --all, in source order
LogoutAllSteps == <<"config.set(null)", "credentials.clear">>

\* a call on the CredentialStore: the config file is not touched
OnCredentials(f, d, c, call) ==
  [file |-> f, dir |-> d, creds |-> c, threw |-> "none", wrote |-> <<>>,
   log |-> <<call>>]

\* a config.set("team", value) of a command
OnConfig(f, d, c, value) ==
  The({[file |-> r.file, dir |-> r.dir, creds |-> c, threw |-> r.threw,
        wrote |-> r.wrote, log |-> r.log]
       : r \in {set(f, d, c, "team", value)}})

\* one call of a command, on team with secret key
Exec(call, f, d, c, team, key) ==
  CASE call = "credentials.set" ->
         OnCredentials(f, d, credentialsSet(c, team, key), call)
    [] call = "credentials.remove" ->
         OnCredentials(f, d, credentialsRemove(c, team), call)
    [] call = "credentials.clear" ->
         OnCredentials(f, d, credentialsClear(c), call)
    [] call = "config.set(team)" -> OnConfig(f, d, c, JSStr(team))
    [] OTHER -> OnConfig(f, d, c, JSNull)

\* the action of `config set <key> <value>`: config.set in a try whose catch
\* rethrows a ZodError as a ConfigError and nothing else, then config.get
configSetAction(f, d, c, key, value) ==
  The({IF r.threw = "ZodError"
       THEN [file |-> r.file, dir |-> r.dir, threw |-> "ConfigError",
             value |-> JSUndef, wrote |-> r.wrote, log |-> r.log]
       ELSE The({[file |-> g.file, dir |-> g.dir, threw |-> g.threw,
                  value |-> g.value, wrote |-> r.wrote \o g.wrote,
                  log |-> r.log \o g.log]
                 : g \in {get(r.file, r.dir, c, key)}})
       : r \in {set(f, d, c, key, value)}})

\* one call of a running command; an error ends the command
CliStep(op, call, team, key, arg, value, next) ==
  \E r \in {Exec(call, file, dir, creds, team, key)} :
     /\ file' = r.file
     /\ dir' = r.dir
     /\ creds' = r.creds
     /\ pc' = IF r.threw = "none" THEN next ELSE "idle"
     /\ last' = Done(op, arg, r, NoDoc, value)
     /\ prev' = Earlier
     /\ UNCHANGED <<envKey, aside>>

\* login: the viewer lookup names the team of the key ("" = none: the key is
\* invalid and the action throws), then the first call
LoginFirst(apiKey, team) ==
  /\ pc = "resolved"
  /\ IF team = ""
     THEN /\ pc' = "idle"
          /\ last' = [Done("login", JSUndef, [threw |-> "ValidationError",
                            wrote |-> <<>>, log |-> <<>>], NoDoc, JSStr(apiKey))
                       EXCEPT !.before = file]
          /\ prev' = Earlier
          /\ UNCHANGED <<file, dir, creds, envKey, aside>>
     ELSE CliStep("login", LoginSteps[1], team, apiKey, JSStr(team),
                  JSStr(apiKey), "login.2")

LoginSecond ==
  /\ pc = "login.2"
  /\ CliStep("login", LoginSteps[2], last.arg.v, last.value.v, last.arg,
             last.value, "idle")

\* logout --all
LogoutAllFirst ==
  /\ pc = "resolved"
  /\ CliStep("logout --all", LogoutAllSteps[1], "", "", JSUndef, JSUndef,
             "logoutAll.2")

LogoutAllSecond ==
  /\ pc = "logoutAll.2"
  /\ CliStep("logout --all", LogoutAllSteps[2], "", "", JSUndef, JSUndef, "idle")

\* logout [team] ("" = no argument): currentTeam = config.get("team"); with
\* neither an argument nor a current team the action returns
LogoutGet(team) ==
  /\ pc = "resolved"
  /\ \E g \in {get(file, dir, creds, "team")} :
       /\ Finish("logout", IF team = "" THEN JSUndef ELSE JSStr(team), g,
                 NoDoc, g.value)
       /\ pc' = IF g.threw # "none" \/ (team = "" /\ ~Truthy(g.value))
                THEN "idle" ELSE "logout.1"
  /\ UNCHANGED <<creds, envKey>>

\* the team logout acts on: the argument, or the current team without one
LogoutTarget == IF last.arg = JSUndef THEN last.value.v ELSE last.arg.v

\* the i-th call of logout [team]; config.set is skipped when the argument
\* names another team than the current one
LogoutStep(i) ==
  /\ pc = (IF i = 1 THEN "logout.1" ELSE "logout.2")
  /\ IF LogoutSteps[i] = "config.set(null)" /\ last.arg # JSUndef
        /\ last.arg # last.value
     THEN /\ pc' = (IF i = 1 THEN "logout.2" ELSE "idle")
          /\ UNCHANGED <<file, dir, creds, envKey, last, prev, aside>>
     ELSE CliStep("logout", LogoutSteps[i], LogoutTarget, "", last.arg,
                  last.value, IF i = 1 THEN "logout.2" ELSE "idle")

\* config set <key> <value>, run by act after the resolution
ConfigSetCommand(key, value) ==
  /\ pc = "resolved"
  /\ \E r \in {configSetAction(file, dir, creds, key, value)} :
       Finish("config set", value, r, NoDoc, r.value)
  /\ pc' = "idle"
  /\ UNCHANGED <<creds, envKey>>

\* config delete <key>: config.remove(key), not wrapped in act
ConfigDeleteCommand(key) ==
  /\ pc = "idle"
  /\ \E r \in {remove(file, dir, creds, key)} :
       Finish("config delete", JSStr(key), r, NoDoc, r.value)
  /\ UNCHANGED <<creds, envKey, pc>>

\* the team the file names is null, missing, or has a credential
PersistedTeamOK(f, c) ==
  (f.k = "map" /\ NamedTeam(f).t = "str") => NamedTeam(f).v \in DOMAIN c

InitCli == Init /\ PersistedTeamOK(file, creds)

NextCli ==
  \/ \E apiKey \in {""} \cup ApiKeys : ActResolve(apiKey)
  \/ \E apiKey \in ApiKeys, team \in {""} \cup Teams : LoginFirst(apiKey, team)
  \/ LoginSecond
  \/ LogoutAllFirst
  \/ LogoutAllSecond
  \/ \E team \in {""} \cup Teams : LogoutGet(team)
  \/ \E i \in 1..2 : LogoutStep(i)
  \/ \E key \in Paths, value \in Teams : ConfigSetCommand(key, JSStr(value))
  \/ \E key \in Paths : ConfigDeleteCommand(key)
  \/ Clear

SpecCli == InitCli /\ [][NextCli]_vars

\* C13: when config set is given a team without a credential while the file
\* holds a valid document, so that its config.set raises a ConfigError, the
\* action ends with an error and prints no value
C13_SetFailureSurfaces ==
  (/\ last.op = "config set"
   /\ last.arg.v \notin DOMAIN creds
   /\ ValidFile(last.before, creds))
    => (last.threw # "none" /\ last.value = JSUndef)

\* C17: in every state during and after login, logout, config set, config
\* delete and clear the team the file names is null or has a credential;
\* between the two calls of login the credential is already stored, between
\* those of logout the file no longer names the team whose credential goes
C17_PersistedTeamHasCredential ==
  /\ PersistedTeamOK(file, creds)
  /\ pc = "login.2" => last.arg.v \in DOMAIN creds
  /\ pc = "logout.2" => NamedTeam(file) # JSStr(LogoutTarget)
  /\ pc = "logoutAll.2" => NamedTeam(file) = JSNull

C17_Witness ==
  /\ pc = "logout.2"
  /\ last.op = "logout"
  /\ last.arg = JSUndef
  /\ NamedTeam(last.before) = JSStr("alpha")
  /\ "alpha" \in DOMAIN creds
  /\ NamedTeam(file) = JSNull
  /\ prev.op = "logout"

\* ------------------------------------------------- the path enumerator
\* zod schema nodes: a leaf type (z.string(), or z.literal(1)), a wrapper
\* around a node (a default wrapper carries its default value), an object of
\* fields
Leaf == [kind |-> "leaf"]
Literal == [kind |-> "literal"]
Wrap(w, n) == [kind |-> w, inner |-> n]
Default(n, d) == [kind |-> "default", inner |-> n, defaultValue |-> d]
Obj(fields) == [kind |-> "object", fields |-> fields]
Field(k, n) == [key |-> k, node |-> n]

Wrappers == {"optional", "default", "nullable"}
KeyNames == {"version", "a", "b"}

\* the schema of the config document: version with a default, team a
\* nullable string with a default
ConfigSchema ==
  Obj(<<Field("version", Default(Literal, JSInt("1"))),
        Field("team", Default(Wrap("nullable", Leaf), JSNull))>>)

\* the value {}
JSEmptyObject == [t |-> "object", v |-> ""]

\* safeParse(v).success: whether the node accepts the value v. An optional
\* accepts undefined and a nullable null before the inner type is asked; a
\* default hands its default value to the inner type in place of undefined;
\* an object parses every key of its shape, a key the value lacks as undefined
RECURSIVE safeParse(_, _)
safeParse(n, v) ==
  CASE n.kind = "leaf" -> v.t = "str"
    [] n.kind = "literal" -> v = JSInt("1")
    [] n.kind = "optional" -> v = JSUndef \/ safeParse(n.inner, v)
    [] n.kind = "nullable" -> v = JSNull \/ safeParse(n.inner, v)
    [] n.kind = "default" ->
         safeParse(n.inner, IF v = JSUndef THEN n.defaultValue ELSE v)
    [] n.kind = "object" ->
         /\ v = JSEmptyObject
         /\ \A i \in 1..Len(n.fields) : safeParse(n.fields[i].node, JSUndef)

\* isOptional(): whether the node accepts undefined
isOptional(n) == safeParse(n, JSUndef)

\* the node getKeys inspects: one wrapper is taken off an optional node
nestedObj(n) == IF isOptional(n) THEN n.inner ELSE n

\* getKeys(obj): the keys of the shape, those of a nested object prefixed
RECURSIVE getKeys(_), getKeysFrom(_, _)
getKeys(obj) == getKeysFrom(obj.fields, 1)

\* the map over Object.keys(obj.shape) from the i-th key on, flattened
getKeysFrom(fields, i) ==
  IF i > Len(fields) THEN <<>>
  ELSE (IF nestedObj(fields[i].node).kind = "object"
        THEN The({[j \in 1..Len(sub) |-> fields[i].key \o "." \o sub[j]]
                  : sub \in {getKeys(nestedObj(fields[i].node))}})
        ELSE <<fields[i].key>>)
       \o getKeysFrom(fields, i + 1)

NotVersion(key) == key # "version"

\* paths = getKeys(schema).filter((key) => key !== "version")
paths(schm) == SelectSeq(getKeys(schm), NotVersion)

\* schemas of at most MaxNodes nodes below the root
MaxNodes == 4

\* the default values of the default wrappers: a string and {}
DefaultValues == {JSStr("s"), JSEmptyObject}

\* nodes of size n (a nested object has at least one field), and field lists
\* of total size n with keys out of avail
RECURSIVE NodesOf(_), FieldsOf(_, _)
NodesOf(n) ==
  IF n = 0 THEN {}
  ELSE IF n = 1 THEN {Leaf}
  ELSE {Wrap(w, m) : w \in Wrappers \ {"default"}, m \in NodesOf(n - 1)}
       \cup {Default(m, d) : m \in NodesOf(n - 1), d \in DefaultValues}
       \cup {Obj(fs) : fs \in FieldsOf(n - 1, KeyNames)}

FieldsOf(n, avail) ==
  IF n = 0 THEN {<<>>}
  ELSE UNION {UNION {{<<Field(k, m)>> \o rest
                      : m \in NodesOf(sz), rest \in FieldsOf(n - sz, avail \ {k})}
                     : sz \in 1..n}
              : k \in avail}

Schemas(max) ==
  {ConfigSchema} \cup UNION {{Obj(fs) : fs \in FieldsOf(n, KeyNames)} : n \in 0..max}

InitPaths ==
  /\ shape \in Schemas(MaxNodes)
  /\ keys = <<>>
  /\ pc = "schema"
  /\ file = Absent /\ dir = FALSE /\ creds = <<>> /\ envKey = ""
  /\ last = <<>> /\ prev = <<>> /\ inv = <<>> /\ steps = <<>>

\* the module-level constant `paths` is computed from the schema
Enumerate ==
  /\ pc = "schema"
  /\ keys' = paths(shape)
  /\ pc' = "paths"
  /\ UNCHANGED <<file, dir, creds, envKey, last, prev, shape, inv, steps>>

NextPaths == Enumerate

SpecPaths == InitPaths /\ [][NextPaths]_vars

\* the node under all its wrappers
RECURSIVE Core(_)
Core(n) == IF n.kind \in Wrappers THEN Core(n.inner) ELSE n

HasNestedObject(obj) ==
  \E i \in 1..Len(obj.fields) : Core(obj.fields[i].node).kind = "object"

\* the dotted paths of the leaf fields, and those of the object fields
RECURSIVE LeafPaths(_, _), ObjectPaths(_, _)
LeafPaths(obj, pre) ==
  UNION {IF Core(obj.fields[i].node).kind = "object"
         THEN LeafPaths(Core(obj.fields[i].node), pre \o obj.fields[i].key \o ".")
         ELSE {pre \o obj.fields[i].key}
         : i \in 1..Len(obj.fields)}

ObjectPaths(obj, pre) ==
  UNION {IF Core(obj.fields[i].node).kind = "object"
         THEN {pre \o obj.fields[i].key}
              \cup ObjectPaths(Core(obj.fields[i].node), pre \o obj.fields[i].key \o ".")
         ELSE {}
         : i \in 1..Len(obj.fields)}

\* the leaf paths in depth-first order of the fields, from the i-th field on
RECURSIVE DepthFirst(_, _, _)
DepthFirst(obj, pre, i) ==
  IF i > Len(obj.fields) THEN <<>>
  ELSE (IF Core(obj.fields[i].node).kind = "object"
        THEN DepthFirst(Core(obj.fields[i].node), pre \o obj.fields[i].key \o ".", 1)
        ELSE <<pre \o obj.fields[i].key>>)
       \o DepthFirst(obj, pre, i + 1)

KeySet == {keys[i] : i \in 1..Len(keys)}

\* C14: for a schema with at least one nested object the enumerated paths
\* are the dotted paths of the leaf fields, each once and in depth-first
\* order, without the path of any object field and without the version field
C14_OnePathPerLeaf ==
  (pc = "paths" /\ HasNestedObject(shape))
    => /\ KeySet = LeafPaths(shape, "") \ {"version"}
       /\ Len(keys) = Cardinality(KeySet)
       /\ KeySet \cap ObjectPaths(shape, "") = {}
       /\ "version" \notin KeySet
       /\ keys = SelectSeq(DepthFirst(shape, "", 1), NotVersion)

\* the schema with the wrappers around its object nodes removed
RECURSIVE Unwrapped(_)
Unwrapped(n) ==
  CASE n.kind \in {"leaf", "literal"} -> n
    [] n.kind = "object" ->
         Obj([i \in 1..Len(n.fields) |->
                Field(n.fields[i].key, Unwrapped(n.fields[i].node))])
    [] OTHER -> IF Core(n).kind = "object" THEN Unwrapped(Core(n)) ELSE n

\* C15: the enumerated paths of a schema are those of the same schema with
\* the wrappers around its object nodes removed
C15_WrappersTransparent ==
  pc = "paths" => keys = paths(Unwrapped(shape))

\* ------------------------------------- two concurrent invocations of set
\* each invocation runs set("team", value); every call it awaits (stat,
\* readTextFile, mkdir, credentials.get, credentials.list) is a step of its
\* own, writeTextFile is two (truncation, then the bytes), and nothing keeps
\* the steps of the two apart
Procs == {1, 2}

\* the calls on the CredentialStore that validating input makes
Calls(input, c) == schema(input, c).log

\* entering write(config): statSync(CONFIG_DIR) comes first
BeginWrite(pr, phase, config) ==
  [pr EXCEPT !.pc = "w.stat", !.phase = phase, !.input = config]

\* schema.parseAsync has settled.  In read(): the document goes on to
\* obj.set and write, an error to the catch block and its write of the
\* defaults.  In write(): the document goes on to writeTextFile, an error
\* rejects the call.
Validated(pr, c) ==
  The({IF pr.phase = "load"
       THEN (IF v.err = "none"
             THEN BeginWrite(pr, "store", objSet(Config(v), "team", pr.value))
             ELSE BeginWrite(pr, "recover",
                             AsObject(Config(schema(DefaultsObject, c)))))
       ELSE (IF v.err = "none"
             THEN [pr EXCEPT !.pc = "writeFile"]
             ELSE [pr EXCEPT !.pc = "done", !.threw = v.err])
       : v \in {schema(pr.input, c)}})

\* schema.parseAsync(input) is called: it settles at once unless the team
\* transform has the CredentialStore to ask
EnterValidation(pr, c) ==
  IF Calls(pr.input, c) = <<>> THEN Validated(pr, c)
  ELSE [pr EXCEPT !.pc = "credentials.get"]

InitRace ==
  /\ file \in Files
  /\ dir \in BOOLEAN
  /\ file # Absent => dir
  /\ creds \in CredentialStores
  /\ inv \in [Procs -> {[pc |-> "stat", phase |-> "load", input |-> DefaultsObject,
                         value |-> v, threw |-> "none"] : v \in TeamValues}]
  /\ steps = <<>>
  /\ pc = "race"
  /\ envKey = ""
  /\ last = [op |-> "init", arg |-> JSUndef, before |-> file, envBefore |-> envKey,
             threw |-> "none", doc |-> NoDoc, value |-> JSUndef,
             wrote |-> <<>>, log |-> <<>>]
  /\ prev = NoOp
  /\ shape = <<>>
  /\ keys = <<>>

\* a step of invocation p that touches nothing on disk
Local(p, pr) ==
  /\ inv' = [inv EXCEPT ![p] = pr]
  /\ UNCHANGED <<file, dir, steps, creds, envKey, pc, last, prev, shape, keys>>

\* read(): Deno.statSync(CONFIG_PATH); without a file the defaults are returned
RaceStat(p) ==
  /\ pc = "race"
  /\ inv[p].pc = "stat"
  /\ Local(p, IF file = Absent
              THEN BeginWrite(inv[p], "store",
                              objSet(Config(schema(DefaultsObject, creds)), "team",
                                     inv[p].value))
              ELSE [inv[p] EXCEPT !.pc = "readFile"])

\* read(): parse(await Deno.readTextFile(CONFIG_PATH)), then schema.parseAsync
RaceReadFile(p) ==
  /\ pc = "race"
  /\ inv[p].pc = "readFile"
  /\ \E t \in {parse(file)} :
       Local(p, IF t.threw
                THEN BeginWrite(inv[p], "recover",
                                AsObject(Config(schema(DefaultsObject, creds))))
                ELSE EnterValidation([inv[p] EXCEPT !.input = t.value], creds))

\* the team transform: await credentials.get(value)
RaceCredentialsGet(p) ==
  /\ pc = "race"
  /\ inv[p].pc = "credentials.get"
  /\ Local(p, IF Len(Calls(inv[p].input, creds)) > 1
              THEN [inv[p] EXCEPT !.pc = "credentials.list"]
              ELSE Validated(inv[p], creds))

\* the team transform: await credentials.list(), then the ConfigError
RaceCredentialsList(p) ==
  /\ pc = "race"
  /\ inv[p].pc = "credentials.list"
  /\ Local(p, Validated(inv[p], creds))

\* write(): Deno.statSync(CONFIG_DIR)
RaceDirStat(p) ==
  /\ pc = "race"
  /\ inv[p].pc = "w.stat"
  /\ Local(p, IF dir THEN EnterValidation(inv[p], creds)
              ELSE [inv[p] EXCEPT !.pc = "mkdir"])

\* write(): await Deno.mkdir(CONFIG_DIR, { recursive: true })
RaceMkdir(p) ==
  /\ pc = "race"
  /\ inv[p].pc = "mkdir"
  /\ dir' = TRUE
  /\ inv' = [inv EXCEPT ![p] = EnterValidation(inv[p], creds)]
  /\ UNCHANGED <<file, steps, creds, envKey, pc, last, prev, shape, keys>>

\* a scalar as it stands in the text
LexText(lex) == IF lex.q THEN "'" \o lex.s \o "'" ELSE lex.s

\* the bytes of a file text that stringify produced, with what follows it
Text(f) ==
  IF f.k # "map" THEN ""
  ELSE "version: " \o LexText(f.version) \o "\n"
       \o "team: " \o LexText(f.team) \o "\n" \o f.tail

\* a write of text at offset 0 into a file that holds old: the bytes of old
\* beyond the length of text stay
Overlay(text, old) ==
  IF Len(Text(text)) >= Len(Text(old)) THEN text
  ELSE [text EXCEPT !.tail = SubSeq(Text(old), Len(Text(text)) + 1, Len(Text(old)))]

\* write(): await Deno.writeTextFile(CONFIG_PATH, stringify(config)), first
\* half: the file is opened with truncation
RaceTruncate(p) ==
  /\ pc = "race"
  /\ inv[p].pc = "writeFile"
  /\ file' = Empty
  /\ inv' = [inv EXCEPT ![p] = [inv[p] EXCEPT !.pc = "writeBytes"]]
  /\ UNCHANGED <<dir, steps, creds, envKey, pc, last, prev, shape, keys>>

\* writeTextFile, second half: the text is written from offset 0; the write
\* of the catch block of read() is followed by obj.set and write
RaceWriteBytes(p) ==
  /\ pc = "race"
  /\ inv[p].pc = "writeBytes"
  /\ \E v \in {schema(inv[p].input, creds)} :
       /\ file' = Overlay(stringify(Config(v)), file)
       /\ inv' = [inv EXCEPT ![p] =
                    IF inv[p].phase = "recover"
                    THEN BeginWrite(inv[p], "store",
                                    objSet(Config(v), "team", inv[p].value))
                    ELSE [inv[p] EXCEPT !.pc = "done"]]
  /\ steps' = Append(steps, [p |-> p, phase |-> inv[p].phase])
  /\ UNCHANGED <<dir, creds, envKey, pc, last, prev, shape, keys>>

NextRace ==
  \/ \E p \in Procs : RaceStat(p)
  \/ \E p \in Procs : RaceReadFile(p)
  \/ \E p \in Procs : RaceCredentialsGet(p)
  \/ \E p \in Procs : RaceCredentialsList(p)
  \/ \E p \in Procs : RaceDirStat(p)
  \/ \E p \in Procs : RaceMkdir(p)
  \/ \E p \in Procs : RaceTruncate(p)
  \/ \E p \in Procs : RaceWriteBytes(p)

SpecRace == InitRace /\ [][NextRace]_vars

AllDone == \A p \in Procs : inv[p].pc = "done"

\* the writeTextFile calls made by the write step of a set, as positions
SetWrites == {i \in 1..Len(steps) : steps[i].phase = "store"}

\* the document the write step of invocation p persists: version 1 and its value
Written(p) == stringify([version |-> JSInt("1"), team |-> inv[p].value])

\* C16: once both invocations are done, the file holds exactly the document
\* of the write step of set that ran last, and no mix of two texts
C16_LastWriterWins ==
  (pc = "race" /\ AllDone /\ SetWrites # {})
    => \E i \in SetWrites :
         /\ \A j \in SetWrites : j <= i
         /\ file = Written(steps[i].p)

====
